---- MODULE Spec2Model ----
(***************************************************************************)
(* Model of app.py: the question preprocessor, the answer service that     *)
(* wraps one outbound POST to the generative-language endpoint, and the    *)
(* /answer request handler that composes them.                             *)
(*                                                                         *)
(* Python strings that the code inspects character by character (the       *)
(* question) are sequences of characters; strings that the code only       *)
(* formats and relays (messages, bodies, URLs) are TLA+ strings.           *)
(***************************************************************************)
EXTENDS Integers, Sequences, FiniteSets, TLC

VARIABLES
    input,      \* SpecP: the string handed to preprocess_question
    out,        \* SpecP: the latest value returned by preprocess_question
    prev,       \* SpecP: the value returned by the call before the latest
    pstage,     \* SpecP: number of applications so far ("start","once","twice")
    GEMINI_API_KEY,   \* the credential read once at process start
    requestsVersion,  \* the installed release of the requests library
    pc,               \* position of the /answer handler
    data_question,    \* value of the "question" field of the inbound JSON body
    processed_query,  \* handle_answer's local of that name
    net,              \* what provider and transport did with the outbound POST
    posted,           \* outcome of requests.post: a response or a raised exception
    response_data,    \* outcome of generate_answer
    reply,            \* the HTTP reply of handle_answer
    sent,             \* the outbound requests made for the current inbound request
    preprocessCalls,  \* calls of preprocess_question for the current request
    generateCalls     \* calls of generate_answer for the current request

pvars == <<input, out, prev, pstage>>
hvars == <<GEMINI_API_KEY, requestsVersion, pc, data_question, processed_query, net,
           posted, response_data, reply, sent, preprocessCalls, generateCalls>>
vars == <<pvars, hvars>>

(***************************************************************************)
(* Bounds                                                                  *)
(***************************************************************************)
MaxLen == 3     \* longest input string of the preprocessor specification
MaxQLen == 2    \* longest question posted to /answer

(***************************************************************************)
(* Characters.  One representative per class that str.lower, str.strip,    *)
(* str.split and the pattern [^\w\s] tell apart.                           *)
(*   "I"        cased letter with a one-character lowercase ("i")          *)
(*   "7"        decimal digit                                              *)
(*   "_"        underscore                                                 *)
(*   " ", "\t"  whitespace                                                 *)
(*   "?"        punctuation                                                *)
(*   "U+4E2D"   a letter of a script without case                          *)
(*   "U+1D400"  MATHEMATICAL BOLD CAPITAL A: category Lu, no lowercase     *)
(*   "U+0130"   LATIN CAPITAL I WITH DOT ABOVE: lowercases to "i" U+0307   *)
(*   "U+0307"   COMBINING DOT ABOVE: a mark, neither \w nor \s             *)
(***************************************************************************)
Chars == {"I", "i", "7", "_", " ", "\t", "?",
          "U+4E2D", "U+1D400", "U+0130", "U+0307"}

\* str.isspace / the class \s
IsSpace(c) == c \in {" ", "\t"}

\* the class \w of a str pattern: str.isalnum or underscore
IsWord(c) == c \in {"I", "i", "7", "_", "U+4E2D", "U+1D400", "U+0130"}

\* Unicode general categories used to state the claims
IsLowerLetter(c) == c = "i"
IsDigit(c) == c = "7"

\* str.lower on one character (the result may be longer than one character)
LowerChar(c) ==
    CASE c = "I"      -> <<"i">>
      [] c = "U+0130" -> <<"i", "U+0307">>
      [] OTHER        -> <<c>>

RECURSIVE Lower(_)
Lower(s) == IF s = <<>> THEN <<>> ELSE LowerChar(Head(s)) \o Lower(Tail(s))

RECURSIVE LStrip(_)
LStrip(s) == IF s # <<>> /\ IsSpace(Head(s)) THEN LStrip(Tail(s)) ELSE s

RECURSIVE RStrip(_)
RStrip(s) ==
    IF s # <<>> /\ IsSpace(s[Len(s)]) THEN RStrip(SubSeq(s, 1, Len(s) - 1)) ELSE s

\* str.strip()
Strip(s) == RStrip(LStrip(s))

\* re.sub(r'[^\w\s]', '', s)
RemovePunct(s) == SelectSeq(s, LAMBDA c : IsWord(c) \/ IsSpace(c))

\* the first token of a string that does not start with whitespace
RECURSIVE TakeToken(_)
TakeToken(s) ==
    IF s = <<>> \/ IsSpace(Head(s)) THEN <<>> ELSE <<Head(s)>> \o TakeToken(Tail(s))

\* str.split(): the maximal runs of non-whitespace characters
RECURSIVE Split(_)
Split(s) ==
    LET t == LStrip(s) IN
    IF t = <<>> THEN <<>>
    ELSE LET tok == TakeToken(t)
         IN  <<tok>> \o Split(SubSeq(t, Len(tok) + 1, Len(t)))

\* " ".join(tokens)
RECURSIVE Join(_)
Join(tokens) ==
    IF tokens = <<>> THEN <<>>
    ELSE IF Len(tokens) = 1 THEN tokens[1]
    ELSE tokens[1] \o <<" ">> \o Join(Tail(tokens))

\* mutant: the tokens are joined without the split, i.e. whitespace is kept
preprocess_question_nosplit(question) == RemovePunct(Strip(Lower(question)))

\* mutant: punctuation is removed after the split instead of before it
preprocess_question_late(question) == RemovePunct(Join(Split(Lower(question))))

preprocess_question(question) ==
    LET processed == RemovePunct(Strip(Lower(question)))
        tokens    == Split(processed)
    IN  Join(tokens)

(***************************************************************************)
(* Python values.  Every value carries its Python type name in ty.         *)
(***************************************************************************)
PyNone == [ty |-> "NoneType"]
PyStr(s) == [ty |-> "str", s |-> s]
PyInt(n) == [ty |-> "int", n |-> n]
PyList(items) == [ty |-> "list", items |-> items]
PyDict(fields) == [ty |-> "dict", fields |-> fields]
EmptyDict == PyDict(<<>>)

\* truth value of a configuration value: None and "" are falsy
Truthy(v) == IF v.ty = "str" THEN v.s # "" ELSE v.ty # "NoneType"

\* outcome of evaluating an expression: a value, or a raised exception
Ok(v) == [raised |-> FALSE, val |-> v, cls |-> "", msg |-> ""]
Raise(cls, msg) == [raised |-> TRUE, val |-> PyNone, cls |-> cls, msg |-> msg]

\* obj.get(key, default)
DictGet(r, key, default) ==
    IF r.raised THEN r
    ELSE IF r.val.ty # "dict"
         THEN Raise("AttributeError",
                    "'" \o r.val.ty \o "' object has no attribute 'get'")
    ELSE IF key \in DOMAIN r.val.fields THEN Ok(r.val.fields[key])
    ELSE Ok(default)

\* obj[0]
Item0(r) ==
    IF r.raised THEN r
    ELSE CASE r.val.ty = "list" ->
                IF r.val.items = <<>>
                THEN Raise("IndexError", "list index out of range")
                ELSE Ok(r.val.items[1])
           [] r.val.ty = "str" ->
                IF r.val.s = ""
                THEN Raise("IndexError", "string index out of range")
                ELSE Ok(PyStr(SubSeq(r.val.s, 1, 1)))
           [] r.val.ty = "dict" ->
                Raise("KeyError", "0")   \* the keys of a JSON object are strings
           [] OTHER ->
                Raise("TypeError", "'" \o r.val.ty \o "' object is not subscriptable")

(***************************************************************************)
(* Configuration (lines 14-16)                                             *)
(***************************************************************************)
MODEL_NAME == "gemini-2.5-flash-preview-09-2025"
API_HOST == "generativelanguage.googleapis.com"
API_PATH == "/v1beta/models/" \o MODEL_NAME \o ":generateContent"
API_URL == "https://" \o API_HOST \o API_PATH

\* values os.getenv("GEMINI_API_KEY") can have at process start
Keys == {PyNone, PyStr(""), PyStr("K1"), PyStr("K2")}

\* releases of requests: Response.json() raises a plain ValueError subclass
\* before 2.27 and requests.exceptions.JSONDecodeError from 2.27 on
RequestsVersions == {"2.26", "2.32"}

(***************************************************************************)
(* The provider and the transport                                          *)
(***************************************************************************)
Statuses == {200, 201, 204, 404, 429, 500}

WellFormedBody ==
    "{\"candidates\":[{\"content\":{\"parts\":[{\"text\":\"Paris\"}]}}]}"

Candidates(c) == PyDict("candidates" :> c)
Content(c) == Candidates(PyList(<<PyDict("content" :> c)>>))
Parts(p) == Content(PyDict("parts" :> p))
Text(t) == Parts(PyList(<<PyDict("text" :> t)>>))

\* response bodies and what json.loads makes of them ("invalid": not JSON)
BodyTable == <<
    <<WellFormedBody, Text(PyStr("Paris"))>>,
    <<"{}", EmptyDict>>,
    <<"{\"error\":{\"code\":429,\"message\":\"quota\"}}",
      PyDict("error" :> PyDict("code" :> PyInt(429) @@ "message" :> PyStr("quota")))>>,
    <<"{\"candidates\":[{}]}", Candidates(PyList(<<EmptyDict>>))>>,
    <<"{\"candidates\":[{\"content\":{}}]}", Content(EmptyDict)>>,
    <<"{\"candidates\":[{\"content\":{\"parts\":[{}]}}]}", Parts(PyList(<<EmptyDict>>))>>,
    <<"{\"candidates\":[]}", Candidates(PyList(<<>>))>>,
    <<"{\"candidates\":[{\"content\":{\"parts\":[]}}]}", Parts(PyList(<<>>))>>,
    <<"{\"candidates\":null}", Candidates(PyNone)>>,
    <<"{\"candidates\":\"x\"}", Candidates(PyStr("x"))>>,
    <<"{\"candidates\":{}}", Candidates(EmptyDict)>>,
    <<"{\"candidates\":[{\"content\":{\"parts\":[{\"text\":null}]}}]}", Text(PyNone)>>,
    <<"{\"candidates\":[{\"content\":{\"parts\":[{\"text\":42}]}}]}", Text(PyInt(42))>>,
    <<"[]", PyList(<<>>)>>,
    <<"<html>Bad Gateway</html>", [ty |-> "invalid"]>>,
    <<"", [ty |-> "invalid"]>> >>

BodyTexts == {BodyTable[i][1] : i \in 1..Len(BodyTable)}

NoNet == [kind |-> "none", status |-> 0, text |-> ""]

\* a completed exchange with any status and body, or a transport failure
NetOutcomes ==
    [kind : {"response"}, status : Statuses, text : BodyTexts]
    \cup {[kind |-> k, status |-> 0, text |-> ""] : k \in {"refused", "read_timeout"}}

\* f"{API_URL}?key={GEMINI_API_KEY}", kept in parts
RequestUrl(key) == [host |-> API_HOST, path |-> API_PATH, query |-> "key=" \o key.s]

\* requests.post(url, json=payload, headers=headers, timeout=60).  A failed
\* connection is reported by urllib3's MaxRetryError, whose text names the
\* path and query of the URL; a read timeout names host and timeout only.
RequestsPost(url, n) ==
    CASE n.kind = "response" ->
            Ok([ty |-> "Response", status_code |-> n.status, text |-> n.text])
      [] n.kind = "refused" ->
            Raise("ConnectionError",
                  "HTTPSConnectionPool(host='" \o url.host
                  \o "', port=443): Max retries exceeded with url: "
                  \o url.path \o "?" \o url.query
                  \o " (Caused by NewConnectionError: [Errno 111] Connection refused)")
      [] n.kind = "read_timeout" ->
            Raise("ReadTimeout",
                  "HTTPSConnectionPool(host='" \o url.host
                  \o "', port=443): Read timed out. (read timeout=60)")

\* response.json()
ResponseJson(response) ==
    LET i == CHOOSE i \in 1..Len(BodyTable) : BodyTable[i][1] = response.text
        v == BodyTable[i][2]
    IN  IF v.ty = "invalid"
        THEN Raise("JSONDecodeError", "Expecting value: line 1 column 1 (char 0)")
        ELSE Ok(v)

\* issubclass(cls, requests.exceptions.RequestException)
IsRequestException(cls, version) ==
    \/ cls \in {"ConnectionError", "ReadTimeout"}
    \/ cls = "JSONDecodeError" /\ version = "2.32"

\* issubclass(cls, Exception)
IsException(cls) ==
    cls \in {"ConnectionError", "ReadTimeout", "JSONDecodeError", "IndexError",
             "KeyError", "TypeError", "AttributeError"}

(***************************************************************************)
(* generate_answer (lines 30-87)                                           *)
(***************************************************************************)
NO_ANSWER == "No answer generated."
NO_KEY_MSG == "GEMINI_API_KEY not configured on the server. Please check your .env file or environment variables."
CONN_MSG == "Connection Error: Could not reach the API endpoint. "
UNEXPECTED_MSG == "An unexpected server error occurred: "

Result(error, answer, raw) ==
    [error |-> error, answer |-> answer, raw_response |-> raw]

\* lines 35-39
NoKeyResult == Result(TRUE, PyStr(NO_KEY_MSG), PyStr("N/A"))

\* lines 59-63
ApiErrorResult(response) ==
    Result(TRUE,
           PyStr("API Error: Status " \o ToString(response.status_code)
                 \o ". Response: " \o response.text),
           PyStr(response.text))

\* line 68
ExtractText(result) ==
    DictGet(Item0(DictGet(DictGet(Item0(DictGet(result, "candidates",
                                                PyList(<<EmptyDict>>))),
                                  "content", EmptyDict),
                          "parts", PyList(<<EmptyDict>>))),
            "text", PyStr(NO_ANSWER))

\* mutant: any 2xx status counts as success
IsErrorStatus_non2xx(status_code) == status_code \notin 200..299

\* line 58
IsErrorStatus(status_code) == status_code # 200

\* lines 57-74: the body of the try block after the POST has returned
TryBody(response) ==
    IF IsErrorStatus(response.status_code) THEN Ok(ApiErrorResult(response))
    ELSE LET answer_text == ExtractText(ResponseJson(response))
         IN  IF answer_text.raised THEN answer_text
             ELSE Ok(Result(FALSE, answer_text.val, PyStr(response.text)))

\* lines 76-87: the two except clauses, tried in order
Except(r, version) ==
    IF ~r.raised THEN r
    ELSE IF IsRequestException(r.cls, version)
         THEN Ok(Result(TRUE, PyStr(CONN_MSG \o r.msg), PyStr(r.msg)))
    ELSE IF IsException(r.cls)
         THEN Ok(Result(TRUE, PyStr(UNEXPECTED_MSG \o r.msg), PyStr(r.msg)))
    ELSE r

\* lines 53-87, given the outcome of requests.post
AfterPost(p, version) ==
    Except(IF p.raised THEN p ELSE TryBody(p.val), version)

\* mutant: the key is tested with "is not None"
KeyConfigured_notnone(key) == key.ty # "NoneType"

\* line 34
KeyConfigured(key) == Truthy(key)

\* the whole function, as a function of its inputs and of the environment
generate_answer(key, version, processed, n) ==
    IF ~KeyConfigured(key) THEN Ok(NoKeyResult)
    ELSE AfterPost(RequestsPost(RequestUrl(key), n), version)

(***************************************************************************)
(* handle_answer (lines 94-125)                                            *)
(***************************************************************************)
Absent == [ty |-> "absent"]
PyText(chars) == [ty |-> "str", chars |-> chars]

\* characters of the questions posted in the handler specification
QChars == {"I", " ", "?"}

\* the "question" field of the inbound body: missing, null, or a string
Questions ==
    {Absent, PyNone} \cup {PyText(s) : s \in UNION {[1..k -> QChars] : k \in 0..MaxQLen}}

\* mutant: the question is not stripped before it is tested
UserQuestion_nostrip(q) == IF q.ty = "absent" THEN <<>> ELSE q.chars

\* line 98: data.get('question', '').strip(), for a string or a missing field
UserQuestion(q) == IF q.ty = "absent" THEN <<>> ELSE Strip(q.chars)

\* lines 43-47
Payload(processed) ==
    [contents |-> <<[parts |-> <<[text |-> processed]>>]>>,
     systemInstruction |-> "You are a friendly, web-based Question-Answering assistant. Provide a clear and helpful answer.",
     tools |-> <<"google_search">>]

NotYet == Ok(PyNone)
NoReply == [status |-> 0, json |-> PyNone]

\* lines 101-107
RejectReply ==
    [status |-> 400,
     json |-> [error |-> TRUE, message |-> PyStr("Please enter a question."),
               processed |-> <<>>, answer |-> PyStr("No question provided."),
               raw_response |-> PyStr("")]]

\* the reply Flask makes of an exception that leaves the view function
FaultReply == [status |-> 500, json |-> PyNone]

\* lines 116-125
AnswerReply(r, processed) ==
    IF r.raised THEN FaultReply
    ELSE [status |-> IF ~r.val.error THEN 200 ELSE 500,
          json |-> [error |-> r.val.error, message |-> r.val.answer,
                    processed |-> processed,
                    raw_response |-> r.val.raw_response]]

\* the whole handler, as a function of its inputs and of the environment
handle_answer(key, version, q, n) ==
    IF q.ty = "NoneType" THEN FaultReply
    ELSE IF UserQuestion(q) = <<>> THEN RejectReply
    ELSE LET processed == preprocess_question(UserQuestion(q))
         IN  AnswerReply(generate_answer(key, version, processed, n), processed)

Init ==
    /\ GEMINI_API_KEY \in Keys
    /\ requestsVersion \in RequestsVersions
    /\ pc = "idle"
    /\ data_question = Absent
    /\ processed_query = <<>>
    /\ net = NoNet
    /\ posted = NotYet
    /\ response_data = NotYet
    /\ reply = NoReply
    /\ sent = <<>>
    /\ preprocessCalls = 0
    /\ generateCalls = 0
    /\ input = <<>> /\ out = <<>> /\ prev = <<>> /\ pstage = "off"

\* a POST to /answer arrives (line 97)
Receive ==
    /\ pc \in {"idle", "done"}
    /\ data_question' \in Questions
    /\ pc' = "handle"
    /\ processed_query' = <<>>
    /\ net' = NoNet
    /\ posted' = NotYet
    /\ response_data' = NotYet
    /\ reply' = NoReply
    /\ sent' = <<>>
    /\ preprocessCalls' = 0
    /\ generateCalls' = 0
    /\ UNCHANGED <<GEMINI_API_KEY, requestsVersion, pvars>>

\* line 98 on a null question: None has no strip, the exception leaves the view
Fault ==
    /\ pc = "handle"
    /\ data_question.ty = "NoneType"
    /\ reply' = FaultReply
    /\ pc' = "done"
    /\ UNCHANGED <<GEMINI_API_KEY, requestsVersion, data_question, processed_query,
                   net, posted, response_data, sent, preprocessCalls,
                   generateCalls, pvars>>

\* lines 98-107
Reject ==
    /\ pc = "handle"
    /\ data_question.ty # "NoneType"
    /\ UserQuestion(data_question) = <<>>
    /\ reply' = RejectReply
    /\ pc' = "done"
    /\ UNCHANGED <<GEMINI_API_KEY, requestsVersion, data_question, processed_query,
                   net, posted, response_data, sent, preprocessCalls,
                   generateCalls, pvars>>

\* lines 98-110
Preprocess ==
    /\ pc = "handle"
    /\ data_question.ty # "NoneType"
    /\ UserQuestion(data_question) # <<>>
    /\ processed_query' = preprocess_question(UserQuestion(data_question))
    /\ preprocessCalls' = preprocessCalls + 1
    /\ pc' = "generate"
    /\ UNCHANGED <<GEMINI_API_KEY, requestsVersion, data_question, net, posted,
                   response_data, reply, sent, generateCalls, pvars>>

\* lines 113, 34-39
GenerateNoKey ==
    /\ pc = "generate"
    /\ ~KeyConfigured(GEMINI_API_KEY)
    /\ generateCalls' = generateCalls + 1
    /\ response_data' = Ok(NoKeyResult)
    /\ pc' = "respond"
    /\ UNCHANGED <<GEMINI_API_KEY, requestsVersion, data_question, processed_query,
                   net, posted, reply, sent, preprocessCalls, pvars>>

\* lines 113, 41-55: the POST, answered by the provider or failed by the transport
Post ==
    /\ pc = "generate"
    /\ KeyConfigured(GEMINI_API_KEY)
    /\ generateCalls' = generateCalls + 1
    /\ \E n \in NetOutcomes :
          /\ net' = n
          /\ posted' = RequestsPost(RequestUrl(GEMINI_API_KEY), n)
    /\ sent' = Append(sent, [url |-> RequestUrl(GEMINI_API_KEY),
                             json |-> Payload(processed_query), timeout |-> 60])
    /\ pc' = "posted"
    /\ UNCHANGED <<GEMINI_API_KEY, requestsVersion, data_question, processed_query,
                   response_data, reply, preprocessCalls, pvars>>

\* mutant: a failed POST is attempted once more
Finish_retry ==
    /\ pc = "posted"
    /\ IF posted.raised /\ Len(sent) < 2
       THEN /\ pc' = "generate"
            /\ UNCHANGED response_data
       ELSE /\ pc' = "respond"
            /\ response_data' = AfterPost(posted, requestsVersion)
    /\ UNCHANGED <<GEMINI_API_KEY, requestsVersion, data_question, processed_query,
                   net, posted, reply, sent, preprocessCalls, generateCalls, pvars>>

\* lines 57-87: the rest of generate_answer
Finish ==
    /\ pc = "posted"
    /\ response_data' = AfterPost(posted, requestsVersion)
    /\ pc' = "respond"
    /\ UNCHANGED <<GEMINI_API_KEY, requestsVersion, data_question, processed_query,
                   net, posted, reply, sent, preprocessCalls, generateCalls, pvars>>

\* lines 115-125
Respond ==
    /\ pc = "respond"
    /\ reply' = AnswerReply(response_data, processed_query)
    /\ pc' = "done"
    /\ UNCHANGED <<GEMINI_API_KEY, requestsVersion, data_question, processed_query,
                   net, posted, response_data, sent, preprocessCalls,
                   generateCalls, pvars>>

Next ==
    \/ Receive
    \/ Fault
    \/ Reject
    \/ Preprocess
    \/ GenerateNoKey
    \/ Post
    \/ Finish
    \/ Respond

Spec == Init /\ [][Next]_vars

(***************************************************************************)
(* Specification SpecP: preprocess_question applied to every string of at  *)
(* most MaxLen characters, and then to its own result.                     *)
(***************************************************************************)
StringsUpTo(n) == UNION {[1..k -> Chars] : k \in 0..n}

InitP ==
    /\ input \in StringsUpTo(MaxLen)
    /\ out = <<>>
    /\ prev = <<>>
    /\ pstage = "start"
    /\ GEMINI_API_KEY = PyNone
    /\ requestsVersion = "2.32"
    /\ pc = "off"
    /\ data_question = Absent
    /\ processed_query = <<>>
    /\ net = NoNet
    /\ posted = NotYet
    /\ response_data = NotYet
    /\ reply = NoReply
    /\ sent = <<>>
    /\ preprocessCalls = 0
    /\ generateCalls = 0

\* preprocess_question(input)
Process ==
    /\ pstage = "start"
    /\ out' = preprocess_question(input)
    /\ pstage' = "once"
    /\ UNCHANGED <<input, prev, hvars>>

\* preprocess_question applied to the value it returned
Reprocess ==
    /\ pstage = "once"
    /\ prev' = out
    /\ out' = preprocess_question(out)
    /\ pstage' = "twice"
    /\ UNCHANGED <<input, hvars>>

NextP == Process \/ Reprocess

SpecP == InitP /\ [][NextP]_vars

(***************************************************************************)
(* Properties                                                              *)
(***************************************************************************)
Returned == pc \in {"respond", "done"} /\ generateCalls > 0
Exchanged == Returned /\ net.kind = "response"
ResultOf == response_data.val
BodyJson(text) ==
    BodyTable[CHOOSE i \in 1..Len(BodyTable) : BodyTable[i][1] = text][2]

\* C1: every call of generate_answer, whatever the provider and the transport
\* do, returns a value with exactly the fields error (a boolean), answer (a
\* string) and raw_response (a string), and never lets an exception escape.
C1_WellFormedResult ==
    Returned =>
        /\ ~response_data.raised
        /\ DOMAIN ResultOf = {"error", "answer", "raw_response"}
        /\ ResultOf.error \in BOOLEAN
        /\ ResultOf.answer.ty = "str"
        /\ ResultOf.raw_response.ty = "str"

\* C2: with no API key configured (unset or empty), generate_answer returns
\* error = true and raw_response = "N/A", and makes no outbound call.
C2_NoKeyShortCircuit ==
    ~Truthy(GEMINI_API_KEY) =>
        /\ sent = <<>>
        /\ Returned =>
              /\ ~response_data.raised
              /\ ResultOf.error = TRUE
              /\ ResultOf.raw_response = PyStr("N/A")

C2_Witness ==
    /\ GEMINI_API_KEY = PyStr("")
    /\ pc = "done"
    /\ generateCalls = 1
    /\ reply.status = 500
    /\ reply.json.raw_response = PyStr("N/A")

\* some level of candidates[0].content.parts[0].text is absent from a JSON
\* object: a key is missing, or the candidates or parts list is empty
PathAbsent(v) ==
    /\ v.ty = "dict"
    /\ \/ "candidates" \notin DOMAIN v.fields
       \/ LET c == v.fields["candidates"] IN
          /\ c.ty = "list"
          /\ \/ c.items = <<>>
             \/ LET c0 == c.items[1] IN
                /\ c0.ty = "dict"
                /\ \/ "content" \notin DOMAIN c0.fields
                   \/ LET ct == c0.fields["content"] IN
                      /\ ct.ty = "dict"
                      /\ \/ "parts" \notin DOMAIN ct.fields
                         \/ LET ps == ct.fields["parts"] IN
                            /\ ps.ty = "list"
                            /\ \/ ps.items = <<>>
                               \/ /\ ps.items[1].ty = "dict"
                                  /\ "text" \notin DOMAIN ps.items[1].fields

\* C3: when the provider answers with a success status (200 here, a success
\* status on every reading) and a JSON body in which some level of
\* candidates[0].content.parts[0].text is absent, an empty candidates or parts
\* list included, the result is error = false, answer = "No answer generated."
C3_PlaceholderWhenAbsent ==
    (Exchanged /\ net.status = 200 /\ BodyJson(net.text).ty = "dict"
       /\ PathAbsent(BodyJson(net.text))) =>
        /\ ~response_data.raised
        /\ ResultOf.error = FALSE
        /\ ResultOf.answer = PyStr(NO_ANSWER)

IsApiErrorResult ==
    /\ ~response_data.raised
    /\ ResultOf = Result(TRUE,
                         PyStr("API Error: Status " \o ToString(net.status)
                               \o ". Response: " \o net.text),
                         PyStr(net.text))

\* C4 as stated: after a completed exchange the upstream-HTTP-error result is
\* returned exactly when the status is not 2xx, and every 2xx response yields
\* error = false with raw_response equal to the body.
C4_Non2xxIsError ==
    Exchanged =>
        /\ IsApiErrorResult <=> net.status \notin 200..299
        /\ net.status \in 200..299 =>
              /\ ~response_data.raised
              /\ ResultOf.error = FALSE
              /\ ResultOf.raw_response = PyStr(net.text)

\* parsing or traversing the body of a response raises
SuccessPathRaises ==
    ExtractText(ResponseJson([text |-> net.text])).raised

\* C4 amended: after a completed exchange the upstream-HTTP-error result is
\* returned exactly when the status is not 200 (201 and 204 included); a
\* response with status 200 takes the success path, which yields error = false
\* with raw_response equal to the body unless parsing or traversing the body
\* raises, and then an error result that is not the upstream-HTTP-error one.
C4_Non200IsError ==
    Exchanged =>
        /\ ~response_data.raised
        /\ IsApiErrorResult <=> net.status # 200
        /\ (net.status = 200 /\ ~SuccessPathRaises) =>
              /\ ResultOf.error = FALSE
              /\ ResultOf.raw_response = PyStr(net.text)
        /\ (net.status = 200 /\ SuccessPathRaises) => ResultOf.error = TRUE

C4_Witness ==
    /\ pc = "done"
    /\ net.kind = "response"
    /\ net.status = 201
    /\ net.text = WellFormedBody
    /\ reply.status = 500
    /\ reply.json.raw_response = PyStr(WellFormedBody)

HasConnMsg(r) ==
    /\ r.answer.ty = "str"
    /\ r.raw_response.ty = "str"
    /\ r.answer.s = CONN_MSG \o r.raw_response.s

HasUnexpectedMsg(r) ==
    /\ r.answer.ty = "str"
    /\ r.raw_response.ty = "str"
    /\ r.answer.s = UNEXPECTED_MSG \o r.raw_response.s

\* C5: a failure carries the connection-error message exactly when it is a
\* transport failure; any other failure, a failure while parsing the body of a
\* success-status response in particular, carries the unexpected-error message;
\* either way error = true and raw_response is the text of the error.
C5_FailureMessages ==
    (Returned /\ net.kind # "none") =>
        /\ ~response_data.raised
        /\ HasConnMsg(ResultOf) <=> net.kind \in {"refused", "read_timeout"}
        /\ (net.kind = "response" /\ net.status = 200 /\ ResultOf.error) =>
              HasUnexpectedMsg(ResultOf)
        /\ (HasConnMsg(ResultOf) \/ HasUnexpectedMsg(ResultOf)) => ResultOf.error

BlankQuestion(q) ==
    \/ q.ty = "absent"
    \/ q.ty = "str" /\ \A i \in 1..Len(q.chars) : IsSpace(q.chars[i])

\* C7: a POST to /answer whose question is empty, whitespace-only or missing
\* is answered with HTTP 400 and error = true, and neither preprocess_question
\* nor generate_answer runs nor is any network call made for it.
C7_BlankRejected ==
    BlankQuestion(data_question) =>
        /\ preprocessCalls = 0
        /\ generateCalls = 0
        /\ sent = <<>>
        /\ pc \in {"idle", "handle", "done"}
        /\ pc = "done" => (reply.status = 400 /\ reply.json.error = TRUE)

C7_Witness ==
    /\ pc = "done"
    /\ data_question = PyText(<<" ">>)
    /\ reply.status = 400
    /\ Truthy(GEMINI_API_KEY)

\* C8: preprocess_question is idempotent: applied to its own result it
\* returns that result, for every input string.
C8_Idempotent == pstage = "twice" => out = prev

C8_Witness ==
    /\ pstage = "twice"
    /\ input = <<"?", " ", "I">>
    /\ prev = <<"i">>
    /\ out = <<"i">>

NoStraySpaces(s) ==
    /\ s # <<>> => (s[1] # " " /\ s[Len(s)] # " ")
    /\ \A i \in 1..(Len(s) - 1) : ~(s[i] = " " /\ s[i + 1] = " ")

\* C9 as stated: the result holds only lowercase letters, digits, underscore
\* and spaces, no leading or trailing space, no two spaces in a row, and the
\* empty string yields the empty string.
C9_OnlyLowercase ==
    pstage \in {"once", "twice"} =>
        /\ \A i \in 1..Len(out) :
              IsLowerLetter(out[i]) \/ IsDigit(out[i]) \/ out[i] \in {"_", " "}
        /\ NoStraySpaces(out)
        /\ input = <<>> => out = <<>>

\* C9 amended: the result holds only spaces and word characters (letters,
\* digits, underscore) that str.lower leaves as they are, so a letter of a
\* script without case, or an uppercase letter without a lowercase form, is
\* kept; no leading or trailing space, no two spaces in a row, and the empty
\* string yields the empty string.
C9_OnlyLoweredWordChars ==
    pstage \in {"once", "twice"} =>
        /\ \A i \in 1..Len(out) :
              \/ out[i] = " "
              \/ IsWord(out[i]) /\ LowerChar(out[i]) = <<out[i]>>
        /\ NoStraySpaces(out)
        /\ input = <<>> => out = <<>>

C9_Witness ==
    /\ pstage = "once"
    /\ input = <<"U+1D400", "\t", "I">>
    /\ out = <<"U+1D400", " ", "i">>

\* C10: the reply of handle_answer does not depend on the value of a
\* configured key: the same request, answered the same way by provider and
\* transport, gets the same reply under every non-empty key.
C10_ReplyIndependentOfKey ==
    (pc = "done" /\ Truthy(GEMINI_API_KEY)) =>
        \A k \in {x \in Keys : Truthy(x)} :
            handle_answer(k, requestsVersion, data_question, net) = reply

\* the handler's steps compute what handle_answer computes in one piece
StepsAgree ==
    pc = "done" =>
        reply = handle_answer(GEMINI_API_KEY, requestsVersion, data_question, net)

====
